---- MODULE Spec2Model ----
(***************************************************************************)
(* Model of PusherDO (src/src/index.js): the Durable Object that owns the  *)
(* connections, channels and presence of one Pusher application.           *)
(*                                                                         *)
(* Every handler runs on one JavaScript thread.  A handler is one action   *)
(* up to its first await on work that finishes later: the only such await  *)
(* is `await hmac(...)` in subscribe (line 144), so a subscribe to a       *)
(* private or presence channel is two actions (Subscribe, then             *)
(* SubscribeResume) and anything may run in between.  The awaits of        *)
(* onClose (line 257) are on promises of unsubscribe, which has no await   *)
(* of its own: their continuations run as microtasks of the close event's  *)
(* task, so onClose is one action.                                         *)
(*                                                                         *)
(* ws.send returns nothing; the only way a send fails is by throwing, and  *)
(* whether it does depends on the transport, which the object cannot see:  *)
(* every send of a handler either returns or throws.  No handler catches,  *)
(* so a throw ends the handler where it is.  throwAt is the position,      *)
(* among the sends of one handler, of the send that throws (0: none).      *)
(***************************************************************************)
EXTENDS Integers, Sequences, FiniteSets, TLC

\* ---- bounds ------------------------------------------------------------
MaxSessions == 2          \* sockets accepted during one run of Spec
MaxRelaySessions == 3     \* sockets accepted during one run of SpecRelay
MaxPending == 1           \* subscribes waiting for their signature check
MaxPublishChannels == 2   \* length of the channels list of one publish

\* ---- program constants ---------------------------------------------------
ActivityTimeout == 120
AuthErrorCode == 4009
CloseListeners == 2       \* "close" and "error" both call onClose

PUSHER_APP_KEY == "your-app-key"
PUSHER_APP_SECRET == "app-secret"

\* A channel name is <<prefix, rest>>: startsWith looks at the prefix only.
TestChannel == <<"", "test-channel">>
PrivateChat == <<"private-", "chat">>
PresenceRoom == <<"presence-", "room">>
PresenceLobby == <<"presence-", "lobby">>
Channels == {TestChannel, PrivateChat, PresenceRoom, PresenceLobby}
NoChannel == <<"-", "-">>

Users == {"u1", "u2"}
Infos == {"info"}

SocketIds ==
  1..(IF MaxSessions > MaxRelaySessions THEN MaxSessions ELSE MaxRelaySessions)
NoSocket == 0

VARIABLES
  nextId,      \* number of sockets accepted so far; their ids are 1..nextId
  clients,     \* keys of this.clients
  cchannels,   \* client.channels of each client object, in insertion order
  cuser,       \* client.user of each client object: <<>> or <<id, info>>
  channels,    \* this.channels: channel -> subscriber ids in insertion order
  presence,    \* this.presence: channel -> <<user id, info>> in insertion order
  closeEvents, \* close/error events dispatched for this socket
  pending,     \* subscribes suspended at `await hmac`
  sent,        \* the ws.send calls of the last handler, in order
  last,        \* the last handler that ran and its input; "idle" between handlers
  joinedAs,    \* history: the user id of each session's subscribe to each
               \* presence channel it is subscribed to
  overtaken    \* history: the suspended subscribes after which the session's
               \* unsubscribe of the same channel was handled

state == <<clients, cchannels, cuser, channels, presence>>
vars == <<nextId, clients, cchannels, cuser, channels, presence,
          closeEvents, pending, sent, last, joinedAs, overtaken>>

\* ---- Set and Map of JavaScript, as sequences in insertion order ----------
Range(s) == {s[i] : i \in 1..Len(s)}

SetAdd(s, x) == IF x \in Range(s) THEN s ELSE Append(s, x)

SetDelete(s, x) == SelectSeq(s, LAMBDA y : y # x)

MapKeys(m) == [i \in 1..Len(m) |-> m[i][1]]

MapHas(m, k) == \E i \in 1..Len(m) : m[i][1] = k

MapSet(m, k, v) ==
  IF MapHas(m, k)
    THEN [i \in 1..Len(m) |-> IF m[i][1] = k THEN <<k, v>> ELSE m[i]]
    ELSE Append(m, <<k, v>>)

MapDelete(m, k) == SelectSeq(m, LAMBDA e : e[1] # k)

FromEntries(m) ==
  {<<m[i][1], m[i][2]>> : i \in 1..Len(m)}

Put(f, k, v) == [x \in DOMAIN f \cup {k} |-> IF x = k THEN v ELSE f[x]]

Drop(f, k) == [x \in DOMAIN f \ {k} |-> f[x]]

startsWith(channel, prefix) == channel[1] = prefix

IsProtected(channel) ==
  startsWith(channel, "private-") \/ startsWith(channel, "presence-")

\* ---- hmac ----------------------------------------------------------------
\* hex(HMAC-SHA256(secret, msg)): equal exactly when secret and msg are.
hmac(secret, msg) == [secret |-> secret, msg |-> msg]

\* `${socketId}:${channel}` + (channel_data ? `:${channel_data}` : "")
base(socketId, channel, channel_data) ==
  [socket_id |-> socketId, channel |-> channel, channel_data |-> channel_data]

\* ---- frames and ws.send --------------------------------------------------
Frame(to, event, channel) ==
  [to |-> to, event |-> event, channel |-> channel, code |-> 0,
   user_id |-> "-", user_info |-> "-", ids |-> <<>>, hash |-> {},
   count |-> 0, activity_timeout |-> 0, data |-> "{}", threw |-> FALSE]

ErrorFrame(to, message) ==
  [Frame(to, "pusher:error", NoChannel) EXCEPT !.code = AuthErrorCode,
                                               !.data = message]

Throws(fs, throwAt) == throwAt \in 1..Len(fs)

\* The send calls made when a handler sends fs in order: all of them, or
\* those up to and including the one that throws.
SendAll(fs, throwAt) ==
  IF Throws(fs, throwAt)
    THEN [i \in 1..throwAt |->
            IF i = throwAt THEN [fs[i] EXCEPT !.threw = TRUE] ELSE fs[i]]
    ELSE fs

\* this.clients.get(sid)?.ws.send(...) for each sid of set except `skip`
FanOut(set, skip, frame) ==
  LET to == SelectSeq(set, LAMBDA sid : sid # skip /\ sid \in clients)
  IN  [i \in 1..Len(to) |-> [frame EXCEPT !.to = to[i]]]

Op(op, socketId, channel, result) ==
  [op |-> op, sid |-> socketId, channel |-> channel, auth |-> <<>>,
   channel_data |-> <<>>, chans |-> <<>>, excl |-> NoSocket, text |-> "",
   result |-> result]

Idle == Op("idle", NoSocket, NoChannel, "ok")

Outcome(fs, throwAt) == IF Throws(fs, throwAt) THEN "threw" ELSE "ok"

\* A message event is dispatched for a socket until its close event is, and
\* a handler starts when the one before it has returned.
Receives(socketId) ==
  /\ last = Idle
  /\ socketId \in 1..nextId
  /\ closeEvents[socketId] = 0

\* The handler has returned (or is suspended): the event loop takes the next
\* event.
Return ==
  /\ last # Idle
  /\ last' = Idle
  /\ sent' = <<>>
  /\ UNCHANGED <<nextId, clients, cchannels, cuser, channels, presence,
                 closeEvents, pending, joinedAs, overtaken>>

\* ---- acceptWebSocket -----------------------------------------------------
Connect(max) ==
  /\ last = Idle
  /\ nextId < max
  /\ LET socketId == nextId + 1
     IN  /\ nextId' = socketId
         /\ clients' = clients \cup {socketId}
         /\ cchannels' = [cchannels EXCEPT ![socketId] = <<>>]
         /\ cuser' = [cuser EXCEPT ![socketId] = <<>>]
         /\ sent' = <<[Frame(socketId, "pusher:connection_established", NoChannel)
                         EXCEPT !.activity_timeout = ActivityTimeout]>>
         /\ last' = Op("connect", socketId, NoChannel, "ok")
  /\ UNCHANGED <<channels, presence, closeEvents, pending, joinedAs, overtaken>>

\* ---- onMessage: pusher:ping ----------------------------------------------
\* The texts a client sends as one frame: a ping envelope, a cut-off
\* envelope, and text that is no JSON at all.
PingText == "{\"event\":\"pusher:ping\"}"
Texts == {PingText, "{\"event\":", "ping"}

SyntaxError == [event |-> "SyntaxError"]

\* JSON.parse(ev.data): the envelope, or the SyntaxError it throws.
JSONparse(text) ==
  IF text = PingText THEN [event |-> "pusher:ping"] ELSE SyntaxError

\* Mutant of pingFrames: the pong goes to every registered session.
pongToAll(socketId) ==
  LET to == SelectSeq([i \in 1..nextId |-> i], LAMBDA sid : sid \in clients)
  IN  [i \in 1..Len(to) |-> Frame(to[i], "pusher:pong", NoChannel)]

\* this.clients.get(socketId)?.ws.send(pong)
pingFrames(socketId) ==
  IF socketId \in clients
    THEN <<Frame(socketId, "pusher:pong", NoChannel)>>
    ELSE <<>>

Ping(socketId) ==
  /\ Receives(socketId)
  /\ LET fs == pingFrames(socketId)
     IN  \E throwAt \in 0..Len(fs) :
           /\ sent' = SendAll(fs, throwAt)
           /\ last' = [Op("ping", socketId, NoChannel, Outcome(fs, throwAt))
                         EXCEPT !.text = PingText]
  /\ UNCHANGED <<nextId, clients, cchannels, cuser, channels, presence,
                 closeEvents, pending, joinedAs, overtaken>>

\* ---- onMessage: JSON.parse of the frame ----------------------------------
\* Mutant of messageFrames: a frame that does not parse is answered with an
\* error frame.
messageError(socketId, text) ==
  IF JSONparse(text) = SyntaxError
    THEN <<ErrorFrame(socketId, "Invalid JSON")>>
    ELSE pingFrames(socketId)

\* try { msg = JSON.parse(ev.data) } catch { return }, then the dispatch on
\* msg.event
messageFrames(socketId, text) ==
  IF JSONparse(text) = SyntaxError
    THEN <<>>
    ELSE pingFrames(socketId)

\* onMessage of a frame given as text
OnMessage(socketId, text) ==
  /\ Receives(socketId)
  /\ LET fs == messageFrames(socketId, text)
         msg == JSONparse(text)
     IN  \E throwAt \in 0..Len(fs) :
           /\ sent' = SendAll(fs, throwAt)
           /\ last' = [Op(IF msg = SyntaxError THEN "message" ELSE "ping",
                          socketId, NoChannel, Outcome(fs, throwAt))
                         EXCEPT !.text = text]
  /\ UNCHANGED <<nextId, clients, cchannels, cuser, channels, presence,
                 closeEvents, pending, joinedAs, overtaken>>

\* ---- subscribe -----------------------------------------------------------
Get(f, k) == IF k \in DOMAIN f THEN f[k] ELSE <<>>

\* Lines 151-199, what subscribe does once the channel needs no (more)
\* authorization: the sends it makes when none throws.
subscribedFrames(socketId, payload) ==
  LET channel == payload.channel
      user == payload.channel_data
      members == MapSet(Get(presence, channel), user[1], user[2])
      ids == MapKeys(members)
  IN  IF startsWith(channel, "presence-")
        THEN IF user = <<>> THEN <<>>
             ELSE <<[Frame(socketId, "pusher_internal:subscription_succeeded", channel)
                       EXCEPT !.ids = ids, !.hash = FromEntries(members),
                              !.count = Len(ids)],
                    [Frame(socketId, "pusher:subscription_succeeded", channel)
                       EXCEPT !.count = Len(ids)]>>
                  \o FanOut(SetAdd(Get(channels, channel), socketId), socketId,
                            [Frame(NoSocket, "pusher_internal:member_added", channel)
                               EXCEPT !.user_id = user[1], !.user_info = user[2]])
        ELSE <<Frame(socketId, "pusher_internal:subscription_succeeded", channel),
               Frame(socketId, "pusher:subscription_succeeded", channel)>>

\* Mutant of writesPresence: every protected channel keeps members.
writesPresenceProtected(channel) == IsProtected(channel)

\* if (channel.startsWith("presence-")) (line 151)
writesPresence(channel) == startsWith(channel, "presence-")

\* ... and the state it leaves and the sends it makes.
subscribed(socketId, payload, throwAt) ==
  LET channel == payload.channel
      isPresence == writesPresence(channel)
      user == payload.channel_data
      fs == subscribedFrames(socketId, payload)
  IN  IF isPresence /\ user = <<>>
        \* JSON.parse(undefined) throws before anything is written
        THEN [cchannels |-> cchannels, cuser |-> cuser, channels |-> channels,
              presence |-> presence, sent |-> <<>>, result |-> "threw"]
        ELSE [cchannels |-> [cchannels EXCEPT ![socketId] = SetAdd(@, channel)],
              cuser |-> IF isPresence THEN [cuser EXCEPT ![socketId] = user]
                        ELSE cuser,
              channels |-> Put(channels, channel,
                               SetAdd(Get(channels, channel), socketId)),
              presence |-> IF isPresence
                             THEN Put(presence, channel,
                                      MapSet(Get(presence, channel), user[1], user[2]))
                             ELSE presence,
              sent |-> SendAll(fs, throwAt),
              result |-> Outcome(fs, throwAt)]

\* One rejected subscribe: an error frame to the requester, nothing else.
rejected(socketId, message, throwAt) ==
  [cchannels |-> cchannels, cuser |-> cuser, channels |-> channels,
   presence |-> presence,
   sent |-> SendAll(<<ErrorFrame(socketId, message)>>, throwAt),
   result |-> "rejected"]

\* Mutant of signatureDiffers: the signature is not compared.
signatureIgnored(socketId, payload) == FALSE

\* signature !== expected (line 145)
signatureDiffers(socketId, payload) ==
  payload.auth[2] #
    hmac(PUSHER_APP_SECRET, base(socketId, payload.channel, payload.channel_data))

Finish(r) ==
  /\ cchannels' = r.cchannels
  /\ cuser' = r.cuser
  /\ channels' = r.channels
  /\ presence' = r.presence
  /\ sent' = r.sent

\* History of the subscribe whose outcome is r: the user id with which the
\* session is now subscribed to the presence channel.
Joins(socketId, payload, r) ==
  joinedAs' =
    IF /\ startsWith(payload.channel, "presence-")
       /\ payload.channel \in Range(r.cchannels[socketId])
       /\ r.cuser[socketId] = payload.channel_data
       /\ r.result # "rejected"
       /\ payload.channel_data # <<>>
      THEN [joinedAs EXCEPT ![socketId] =
              Put(@, payload.channel, payload.channel_data[1])]
      ELSE joinedAs

\* History of the unsubscribes that left the channel sets cch: a session
\* keeps the user ids of the channels it is still subscribed to.
StillJoined(cch) ==
  [s \in SocketIds |->
     [c \in DOMAIN joinedAs[s] \cap Range(cch[s]) |-> joinedAs[s][c]]]

SubOp(socketId, payload, result) ==
  [Op("subscribe", socketId, payload.channel, result)
     EXCEPT !.auth = payload.auth, !.channel_data = payload.channel_data]

\* The payloads a client sends.  channel_data is JSON of {user_id,
\* user_info}, here <<user id, info>>, or absent, here <<>>.
Payload(channel, auth, channel_data) ==
  [channel |-> channel, auth |-> auth, channel_data |-> channel_data]

Signed(key, secret, socketId, channel, channel_data) ==
  Payload(channel, <<key, hmac(secret, base(socketId, channel, channel_data))>>,
          channel_data)

ChannelData(channel, Usrs) ==
  IF startsWith(channel, "presence-")
    THEN {<<u, i>> : u \in Usrs, i \in Infos}
    ELSE IF IsProtected(channel)
      THEN {<<u, i>> : u \in Usrs, i \in Infos} \cup {<<>>}
      ELSE {<<>>}

\* For a public channel a bare subscribe.  For a protected one: no auth;
\* another key; the right auth, with and without channel_data; a signature
\* made with another secret; a signature made for another socket.
Payloads(socketId, Chs, Usrs) ==
  {Payload(c, <<>>, <<>>) : c \in Chs}
  \cup {Signed("other-key", PUSHER_APP_SECRET, socketId, c, <<>>) :
          c \in {x \in Chs : IsProtected(x)}}
  \cup {Signed(PUSHER_APP_KEY, PUSHER_APP_SECRET, socketId, c, <<>>) :
          c \in {x \in Chs : IsProtected(x)}}
  \cup UNION {UNION {{Signed(PUSHER_APP_KEY, PUSHER_APP_SECRET, socketId, c, d),
                      Signed(PUSHER_APP_KEY, "other-secret", socketId, c, d),
                      Signed(PUSHER_APP_KEY, PUSHER_APP_SECRET, NoSocket, c, d)} :
                       d \in ChannelData(c, Usrs)} :
                 c \in {x \in Chs : IsProtected(x)}}

\* onMessage "pusher:subscribe" and subscribe up to `await hmac` (line 144)
Subscribe(socketId, payload) ==
  /\ Receives(socketId)
  /\ socketId \in clients
  /\ IF ~IsProtected(payload.channel)
       THEN \E throwAt \in 0..Len(subscribedFrames(socketId, payload)) :
              LET r == subscribed(socketId, payload, throwAt)
              IN  /\ Finish(r) /\ last' = SubOp(socketId, payload, r.result)
                  /\ Joins(socketId, payload, r)
                  /\ pending' = pending
       ELSE IF payload.auth = <<>>
         THEN \E throwAt \in 0..1 :
                LET r == rejected(socketId, "Auth required", throwAt)
                IN  /\ Finish(r) /\ last' = SubOp(socketId, payload, r.result)
                    /\ Joins(socketId, payload, r)
                    /\ pending' = pending
       ELSE IF payload.auth[1] # PUSHER_APP_KEY
         THEN \E throwAt \in 0..1 :
                LET r == rejected(socketId, "Invalid key", throwAt)
                IN  /\ Finish(r) /\ last' = SubOp(socketId, payload, r.result)
                    /\ Joins(socketId, payload, r)
                    /\ pending' = pending
       ELSE /\ Cardinality(pending) < MaxPending
            /\ [sid |-> socketId, payload |-> payload] \notin pending
            /\ pending' = pending \cup {[sid |-> socketId, payload |-> payload]}
            /\ sent' = <<>>
            /\ last' = SubOp(socketId, payload, "await")
            /\ UNCHANGED <<cchannels, cuser, channels, presence, joinedAs>>
  /\ UNCHANGED <<nextId, clients, closeEvents, overtaken>>

\* subscribe from the resolution of hmac on (lines 145-199)
SubscribeResume(p) ==
  /\ last = Idle
  /\ p \in pending
  /\ pending' = pending \ {p}
  /\ IF signatureDiffers(p.sid, p.payload)
       THEN \E throwAt \in 0..1 :
              LET r == rejected(p.sid, "Invalid signature", throwAt)
              IN  /\ Finish(r) /\ last' = SubOp(p.sid, p.payload, r.result)
                  /\ Joins(p.sid, p.payload, r)
       ELSE \E throwAt \in 0..Len(subscribedFrames(p.sid, p.payload)) :
              LET r == subscribed(p.sid, p.payload, throwAt)
              IN  /\ Finish(r) /\ last' = SubOp(p.sid, p.payload, r.result)
                  /\ Joins(p.sid, p.payload, r)
  /\ overtaken' = overtaken \ {p}
  /\ UNCHANGED <<nextId, clients, closeEvents>>

\* ---- unsubscribe ---------------------------------------------------------
\* unsubscribe on the state st = [cchannels, channels, presence, sent, threw];
\* this.clients and client.user are read only.
\* Mutant of clientChannelsDelete: the channel stays in client.channels.
clientChannelsKeep(cch, channel) == cch

\* client.channels.delete(channel)
clientChannelsDelete(cch, channel) == SetDelete(cch, channel)

\* Mutant of channelsDelete: an emptied subscriber set stays in the index.
channelsKeepEmpty(chs, channel, socketId) ==
  IF channel \notin DOMAIN chs THEN chs
  ELSE [chs EXCEPT ![channel] = SetDelete(@, socketId)]

\* set.delete(socketId); if (set.size === 0) this.channels.delete(channel)
channelsDelete(chs, channel, socketId) ==
  IF channel \notin DOMAIN chs THEN chs
  ELSE IF Len(SetDelete(chs[channel], socketId)) = 0 THEN Drop(chs, channel)
  ELSE [chs EXCEPT ![channel] = SetDelete(@, socketId)]

unsubscribe(st, socketId, channel, throwAt) ==
  IF socketId \notin clients THEN st
  ELSE
    LET has == channel \in DOMAIN st.channels
        set == IF has THEN SetDelete(st.channels[channel], socketId) ELSE <<>>
        channels1 == channelsDelete(st.channels, channel, socketId)
        leaves == startsWith(channel, "presence-") /\ cuser[socketId] # <<>>
        presence1 == IF leaves /\ channel \in DOMAIN st.presence
                       THEN [st.presence EXCEPT
                               ![channel] = MapDelete(@, cuser[socketId][1])]
                       ELSE st.presence
        fs == IF leaves
                THEN FanOut(set, NoSocket,
                            [Frame(NoSocket, "pusher_internal:member_removed", channel)
                               EXCEPT !.user_id = cuser[socketId][1]])
                ELSE <<>>
        at == throwAt - Len(st.sent)
    IN  [cchannels |-> [st.cchannels EXCEPT
                          ![socketId] = clientChannelsDelete(@, channel)],
         channels |-> channels1,
         presence |-> presence1,
         sent |-> st.sent \o SendAll(fs, at),
         threw |-> Throws(fs, at)]

Now == [cchannels |-> cchannels, channels |-> channels, presence |-> presence,
        sent |-> <<>>, threw |-> FALSE]

\* onMessage "pusher:unsubscribe"
Unsubscribe(socketId, channel) ==
  /\ Receives(socketId)
  /\ \E throwAt \in 0..Len(unsubscribe(Now, socketId, channel, 0).sent) :
     LET st == unsubscribe(Now, socketId, channel, throwAt)
     IN  /\ cchannels' = st.cchannels
         /\ channels' = st.channels
         /\ presence' = st.presence
         /\ sent' = st.sent
         /\ last' = Op("unsubscribe", socketId, channel,
                       IF st.threw THEN "threw" ELSE "ok")
         /\ joinedAs' = StillJoined(st.cchannels)
  /\ overtaken' = overtaken \cup {p \in pending : /\ p.sid = socketId
                                                  /\ p.payload.channel = channel}
  /\ UNCHANGED <<nextId, clients, cuser, closeEvents, pending>>

\* ---- onClose -------------------------------------------------------------
\* for (const channel of [...client.channels]) await this.unsubscribe(...):
\* a throw of unsubscribe ends the loop and onClose.
RECURSIVE closeLoop(_, _, _, _)
closeLoop(st, socketId, chs, throwAt) ==
  IF chs = <<>> THEN st
  ELSE LET st1 == unsubscribe(st, socketId, Head(chs), throwAt)
       IN  IF st1.threw THEN st1
           ELSE closeLoop(st1, socketId, Tail(chs), throwAt)

\* A close or error event of the socket is dispatched.
OnClose(socketId) ==
  /\ last = Idle
  /\ socketId \in 1..nextId
  /\ closeEvents[socketId] < CloseListeners
  /\ closeEvents' = [closeEvents EXCEPT ![socketId] = @ + 1]
  /\ IF socketId \notin clients
       THEN /\ sent' = <<>>
            /\ last' = Op("close", socketId, NoChannel, "gone")
            /\ UNCHANGED <<clients, cchannels, channels, presence, joinedAs>>
       ELSE \E throwAt \in
                 0..Len(closeLoop(Now, socketId, cchannels[socketId], 0).sent) :
               LET st == closeLoop(Now, socketId, cchannels[socketId], throwAt)
               IN  /\ clients' = IF st.threw THEN clients ELSE clients \ {socketId}
                   /\ cchannels' = st.cchannels
                   /\ channels' = st.channels
                   /\ presence' = st.presence
                   /\ sent' = st.sent
                   /\ last' = Op("close", socketId, NoChannel,
                                 IF st.threw THEN "threw" ELSE "ok")
                   /\ joinedAs' = StillJoined(st.cchannels)
  /\ UNCHANGED <<nextId, cuser, pending, overtaken>>

\* ---- clientEvent ---------------------------------------------------------
\* the three early returns of clientEvent
relayed(socketId, channel) ==
  /\ socketId \in clients
  /\ channel \in Range(cchannels[socketId])
  /\ IsProtected(channel)
  /\ channel \in DOMAIN channels

ClientEvent(socketId, channel) ==
  /\ Receives(socketId)
  /\ LET fs == IF relayed(socketId, channel)
                 THEN FanOut(channels[channel], socketId,
                             [Frame(NoSocket, "client-event", channel)
                                EXCEPT !.data = "payload",
                                       !.user_id = IF cuser[socketId] = <<>> THEN "-"
                                                   ELSE cuser[socketId][1]])
                 ELSE <<>>
     IN  \E throwAt \in 0..Len(fs) :
           /\ sent' = SendAll(fs, throwAt)
           /\ last' = Op("client_event", socketId, channel,
                         IF relayed(socketId, channel) THEN Outcome(fs, throwAt)
                         ELSE "dropped")
  /\ UNCHANGED <<nextId, clients, cchannels, cuser, channels, presence,
                 closeEvents, pending, joinedAs, overtaken>>

\* ---- broadcast -----------------------------------------------------------
\* Mutant of publishFrames: the event goes to every registered session.
publishToAll(chans, socket_id) ==
  FanOut([i \in 1..nextId |-> i], socket_id,
         [Frame(NoSocket, "test-event", Head(chans)) EXCEPT !.data = "hi"])

RECURSIVE publishFrames(_, _)
publishFrames(chans, socket_id) ==
  IF chans = <<>> THEN <<>>
  ELSE LET channel == Head(chans)
           fs == IF channel \in DOMAIN channels
                   THEN FanOut(channels[channel], socket_id,
                               [Frame(NoSocket, "test-event", channel)
                                  EXCEPT !.data = "hi"])
                   ELSE <<>>
       IN  fs \o publishFrames(Tail(chans), socket_id)

ChannelLists(Chs) ==
  UNION {{l \in [1..n -> Chs] : \A i, j \in 1..n : l[i] = l[j] => i = j} :
           n \in 1..MaxPublishChannels}

\* POST /events: broadcast({name, data, channels, socket_id})
Broadcast(chans, socket_id) ==
  /\ last = Idle
  /\ LET fs == publishFrames(chans, socket_id)
     IN  \E throwAt \in 0..Len(fs) :
           /\ sent' = SendAll(fs, throwAt)
           /\ last' = [Op("broadcast", NoSocket, NoChannel, Outcome(fs, throwAt))
                         EXCEPT !.chans = chans, !.excl = socket_id]
  /\ UNCHANGED <<nextId, clients, cchannels, cuser, channels, presence,
                 closeEvents, pending, joinedAs, overtaken>>

\* ---- specification -------------------------------------------------------
Init ==
  /\ nextId = 0
  /\ clients = {}
  /\ cchannels = [s \in SocketIds |-> <<>>]
  /\ cuser = [s \in SocketIds |-> <<>>]
  /\ channels = <<>>
  /\ presence = <<>>
  /\ closeEvents = [s \in SocketIds |-> 0]
  /\ pending = {}
  /\ sent = <<>>
  /\ last = Idle
  /\ joinedAs = [s \in SocketIds |-> <<>>]
  /\ overtaken = {}

\* The handlers, for at most max sockets whose clients name the channels
\* Chs and the users Usrs.
NextOver(Chs, Usrs, max) ==
  \/ Connect(max)
  \/ Return
  \/ \E s \in SocketIds : Ping(s)
  \/ \E s \in SocketIds, text \in Texts : OnMessage(s, text)
  \/ \E s \in SocketIds : \E p \in Payloads(s, Chs, Usrs) : Subscribe(s, p)
  \/ \E p \in pending : SubscribeResume(p)
  \/ \E s \in SocketIds, c \in Chs : Unsubscribe(s, c)
  \/ \E s \in SocketIds, c \in Chs : ClientEvent(s, c)
  \/ \E chans \in ChannelLists(Chs), x \in 0..nextId : Broadcast(chans, x)
  \/ \E s \in SocketIds : OnClose(s)

\* A public and a presence channel, two users.
Next == NextOver({TestChannel, PresenceRoom}, Users, MaxSessions)

Spec == Init /\ [][Next]_vars

\* A public and a private channel, one more socket.
NextRelay == NextOver({TestChannel, PrivateChat}, {}, MaxRelaySessions)

SpecRelay == Init /\ [][NextRelay]_vars

\* The payloads of clients whose auth endpoint signed their subscribes.
Authorized(socketId, Chs, Usrs) ==
  UNION {{Signed(PUSHER_APP_KEY, PUSHER_APP_SECRET, socketId, c, d) :
            d \in ChannelData(c, Usrs)} : c \in Chs}

\* Membership only: connects, authorized subscribes, unsubscribes, closes.
\* Two presence channels; the users of the room, one of them in the lobby.
NextPresence ==
  \/ Connect(MaxSessions)
  \/ Return
  \/ \E s \in SocketIds :
       \E p \in Authorized(s, {PresenceRoom}, Users)
                \cup Authorized(s, {PresenceLobby}, {"u2"}) : Subscribe(s, p)
  \/ \E p \in pending : SubscribeResume(p)
  \/ \E s \in SocketIds, c \in {PresenceRoom, PresenceLobby} : Unsubscribe(s, c)
  \/ \E s \in SocketIds : OnClose(s)

SpecPresence == Init /\ [][NextPresence]_vars

\* A private and a presence channel, one user.
NextTypes == NextOver({PrivateChat, PresenceRoom}, {"u1"}, MaxSessions)

SpecTypes == Init /\ [][NextTypes]_vars

\* ==== properties ==========================================================
subscribers(c) == Range(Get(channels, c))

Sent(event) == {i \in 1..Len(sent) : sent[i].event = event}

SentTo(event, sid) == {i \in Sent(event) : sent[i].to = sid}

\* C1: for every session S of the registry and every channel C, S is in the
\* subscriber set of C exactly when C is in the channel set of S.
C1_SubscriptionsAgree ==
  \A S \in clients : \A c \in Channels :
    S \in subscribers(c) <=> c \in Range(cchannels[S])

\* A disconnect was processed and left another session with a subscription.
C1_Witness ==
  /\ last.op = "close" /\ last.result = "ok"
  /\ \E S \in clients : PresenceRoom \in Range(cchannels[S])
                        /\ S \in subscribers(PresenceRoom)

\* The disconnect of S has been processed: onClose ran to its end, where it
\* removed S from the registry, and no subscribe of S is still suspended.
Disconnected(S) ==
  /\ S \in 1..nextId
  /\ closeEvents[S] > 0
  /\ S \notin clients
  /\ \A p \in pending : p.sid # S

\* C2: once the disconnect of S has been processed, S is in the subscriber
\* set of no channel.
C2_NoDanglingSubscriber ==
  \A S \in SocketIds : Disconnected(S) => \A c \in Channels : S \notin subscribers(c)

\* The auth of a subscribe is missing, has another key or has a signature
\* that is not the HMAC of "socket_id:channel[:channel_data]".
BadAuth(op) ==
  /\ IsProtected(op.channel)
  /\ \/ op.auth = <<>>
     \/ op.auth[1] # PUSHER_APP_KEY
     \/ op.auth[2] # hmac(PUSHER_APP_SECRET,
                          base(op.sid, op.channel, op.channel_data))

Completes(op) == op.op = "subscribe" /\ op.result # "await"

\* C3: a subscribe to a protected channel with a bad auth sends one
\* pusher:error frame with code 4009, to the requester, and changes no
\* session, channel or presence state.
C3_BadAuthRejected ==
  [][(Completes(last') /\ BadAuth(last')) =>
       /\ Len(sent') = 1
       /\ sent'[1].to = last'.sid
       /\ sent'[1].event = "pusher:error"
       /\ sent'[1].code = AuthErrorCode
       /\ UNCHANGED state]_vars

\* A wrong signature was rejected for a session that keeps a subscription.
C3_Witness ==
  /\ Completes(last) /\ BadAuth(last)
  /\ last.auth # <<>> /\ last.auth[1] = PUSHER_APP_KEY
  /\ last.sid \in clients
  /\ cchannels[last.sid] # <<>>
  /\ last.channel \notin Range(cchannels[last.sid])
  /\ SentTo("pusher:error", last.sid) = {1}

C10_PingPong ==
  [][last'.op = "ping" =>
       /\ Len(sent') = 1
       /\ sent'[1].to = last'.sid
       /\ sent'[1].event = "pusher:pong"
       /\ UNCHANGED state]_vars

\* A ping was answered while another session is registered and subscribed.
C10_Witness ==
  /\ last.op = "ping"
  /\ SentTo("pusher:pong", last.sid) = {1}
  /\ \E S \in clients \ {last.sid} : cchannels[S] # <<>>

\* The registered subscribers of c: those a fan-out on c has a socket for.
recipientsOf(chs, cls, c) == Range(Get(chs, c)) \cap cls

recipients(c) == recipientsOf(channels, clients, c)

\* The sessions to which the frames sq of one handler were sent, and those to
\* which its frames `event` on channel c were.
AllTo(sq) == {sq[i].to : i \in 1..Len(sq)}

FramesTo(sq, event, c) ==
  {sq[i].to : i \in {j \in 1..Len(sq) : sq[j].event = event /\ sq[j].channel = c}}

\* The sessions to which the frames i \in I of the last handler were sent.
To(I) == {sent[i].to : i \in I}

SentOn(event, c) == {i \in Sent(event) : sent[i].channel = c}

\* The last handler was a subscribe that registered the session: to a
\* presence channel, with an accepted auth and a channel_data.
Joined(op) ==
  /\ Completes(op) /\ ~BadAuth(op)
  /\ startsWith(op.channel, "presence-")
  /\ op.channel_data # <<>>

\* C4: the snapshot sent to the joiner of a presence channel lists the joiner
\* and counts the ids listed; and when A alone is subscribed, as u1, and B
\* subscribes as u2, B's snapshot has the ids u1 and u2, count 2, and A is
\* sent member_added for u2.
C4_SnapshotIncludesJoiner ==
  [][Joined(last') =>
       /\ Len(sent') >= 1
       /\ sent'[1].event = "pusher_internal:subscription_succeeded"
       /\ sent'[1].to = last'.sid
       /\ last'.channel_data[1] \in Range(sent'[1].ids)
       /\ sent'[1].count = Len(sent'[1].ids)
       /\ \A A \in clients \ {last'.sid} :
            ( /\ Get(channels, last'.channel) = <<A>>
              /\ MapKeys(Get(presence, last'.channel)) = <<"u1">>
              /\ cuser[A] # <<>> /\ cuser[A][1] = "u1"
              /\ last'.channel_data[1] = "u2" )
            => /\ sent'[1].count = 2
               /\ Range(sent'[1].ids) = {"u1", "u2"}
               /\ \E i \in 1..Len(sent') :
                    /\ sent'[i].event = "pusher_internal:member_added"
                    /\ sent'[i].to = A
                    /\ sent'[i].user_id = "u2"]_vars

\* C5: member_added of a subscribe of S to C goes to every other subscriber
\* of C and not to S; member_removed of S leaving C, by unsubscribe or by
\* disconnect, goes to every remaining subscriber of C and not to S.
C5_CauserNotNotified ==
  [][/\ Joined(last') =>
          FramesTo(sent', "pusher_internal:member_added", last'.channel)
            = recipientsOf(channels', clients', last'.channel) \ {last'.sid}
     /\ \A S \in clients : \A c \in Channels :
          ( /\ last'.op \in {"unsubscribe", "close"} /\ last'.sid = S
            /\ startsWith(c, "presence-")
            /\ c \in Range(cchannels[S])
            /\ c \notin Range(cchannels'[S]) )
          => FramesTo(sent', "pusher_internal:member_removed", c)
               = recipients(c) \ {S}]_vars

\* C6: a client event of S on C is sent to exactly the other subscribers of C
\* when S is subscribed to C and C is private or presence, and to nobody
\* otherwise; it changes no state.
C6_RelayDelivers ==
  [][last'.op = "client_event" =>
       /\ AllTo(sent') =
            IF /\ last'.sid \in clients
               /\ last'.channel \in Range(cchannels[last'.sid])
               /\ IsProtected(last'.channel)
              THEN recipients(last'.channel) \ {last'.sid}
              ELSE {}
       /\ \A i \in 1..Len(sent') : /\ sent'[i].event = "client-event"
                                   /\ sent'[i].channel = last'.channel
       /\ Len(sent') = Cardinality(AllTo(sent'))
       /\ UNCHANGED state]_vars

\* C7: a publish sends, for each channel of its list, one frame to every
\* subscriber of the channel but socket_id, and no other frame; it changes no
\* state.
C7_PublishDelivers ==
  [][last'.op = "broadcast" =>
       /\ \A k \in 1..Len(last'.chans) :
            FramesTo(sent', "test-event", last'.chans[k])
              = recipients(last'.chans[k]) \ {last'.excl}
       /\ \A i \in 1..Len(sent') : /\ sent'[i].event = "test-event"
                                   /\ sent'[i].channel \in Range(last'.chans)
       /\ \A i, j \in 1..Len(sent') :
            (sent'[i].to = sent'[j].to /\ sent'[i].channel = sent'[j].channel)
              => i = j
       /\ UNCHANGED state]_vars

\* A send of the fan-out of `event` threw.
FanOutFailed(event) == \E i \in Sent(event) : sent[i].threw

\* C9: when a send of a fan-out throws, the other recipients of the fan-out
\* are still sent the frame: of a publish, on every channel of its list; of a
\* client event; of member_added; of member_removed.
C9_FanOutIsolated ==
  /\ (last.op = "broadcast" /\ FanOutFailed("test-event")) =>
       \A k \in 1..Len(last.chans) :
         recipients(last.chans[k]) \ {last.excl}
           \subseteq To(SentOn("test-event", last.chans[k]))
  /\ (last.op = "client_event" /\ FanOutFailed("client-event")) =>
       recipients(last.channel) \ {last.sid} \subseteq To(Sent("client-event"))
  /\ (last.op = "subscribe" /\ FanOutFailed("pusher_internal:member_added")) =>
       recipients(last.channel) \ {last.sid}
         \subseteq To(Sent("pusher_internal:member_added"))
  /\ ( /\ last.op \in {"unsubscribe", "close"}
       /\ FanOutFailed("pusher_internal:member_removed") ) =>
       recipients(sent[Len(sent)].channel) \ {last.sid}
         \subseteq To(SentOn("pusher_internal:member_removed",
                             sent[Len(sent)].channel))

\* Session S is registered, subscribed to c, and its identity is u or it
\* subscribed to c as u.
MemberAs(S, c, u) ==
  /\ S \in clients
  /\ c \in Range(cchannels[S])
  /\ \/ cuser[S] # <<>> /\ cuser[S][1] = u
     \/ c \in DOMAIN joinedAs[S] /\ joinedAs[S][c] = u

\* C11: the presence store has an entry for user u in channel c only if a
\* registered session authenticated as u is subscribed to c.
C11_PresenceHasSubscriber ==
  \A c \in DOMAIN presence : \A u \in Range(MapKeys(presence[c])) :
    \E S \in SocketIds : MemberAs(S, c, u)

\* C12: a frame whose text does not parse as JSON sends no frame and changes
\* no session, channel or presence state.
C12_MalformedDropped ==
  [][(last'.op \in {"message", "ping"} /\ JSONparse(last'.text) = SyntaxError) =>
       /\ sent' = <<>>
       /\ UNCHANGED state]_vars

\* A frame that does not parse was handled for a subscribed session while
\* another session is registered.
C12_Witness ==
  /\ last.op = "message" /\ last.text \in Texts \ {PingText}
  /\ last.sid \in clients /\ cchannels[last.sid] # <<>>
  /\ clients \ {last.sid} # {}
  /\ sent = <<>>

\* The operations that read or change session, channel or presence state.
Mutating == {"subscribe", "unsubscribe", "client_event", "broadcast", "close"}

\* C13: while a subscribe to a private or presence channel is between its
\* authorization check and its completion, the next subscribe, unsubscribe,
\* relay, broadcast or disconnect cleanup to run is the rest of that
\* subscribe.
C13_SubscribeAtomic ==
  [][(pending # {} /\ last'.op \in Mutating) =>
       \E p \in pending : p \notin pending']_vars

\* C14: when a member_removed send throws during the disconnect cleanup of
\* S, S is afterwards in no subscriber set and not in the registry.
C14_CleanupSurvivesFailedSend ==
  (last.op = "close" /\ FanOutFailed("pusher_internal:member_removed")) =>
    /\ last.sid \notin clients
    /\ \A c \in Channels : last.sid \notin subscribers(c)

\* C15: the presence store has entries only under presence- channel names,
\* and a subscribe, unsubscribe or relay on a public or private channel, and
\* a broadcast, leave the presence store and every identity unchanged.
C15_PresenceOnlyOnPresence ==
  /\ [](\A c \in DOMAIN presence : startsWith(c, "presence-"))
  /\ [][( \/ /\ last'.op \in {"subscribe", "unsubscribe", "client_event"}
             /\ ~startsWith(last'.channel, "presence-")
          \/ last'.op = "broadcast" )
        => UNCHANGED <<presence, cuser>>]_vars

\* A session with no identity subscribed to the private channel with a
\* channel_data, while the presence channel has a member.
C15_Witness ==
  /\ last.op = "subscribe" /\ last.result = "ok"
  /\ last.channel = PrivateChat /\ last.channel_data # <<>>
  /\ PrivateChat \in Range(cchannels[last.sid])
  /\ cuser[last.sid] = <<>>
  /\ PresenceRoom \in DOMAIN presence /\ presence[PresenceRoom] # <<>>

\* C16: an unsubscribe of a registered session for a channel it is not
\* subscribed to sends no frame and changes no session, channel or presence
\* state.
C16_UnsubscribeNotSubscribed ==
  [][( /\ last'.op = "unsubscribe"
       /\ last'.sid \in clients
       /\ last'.channel \notin Range(cchannels[last'.sid]) )
     => /\ sent' = <<>>
        /\ UNCHANGED state]_vars

\* C17: when the unsubscribe of S for C was handled after its authorized
\* subscribe to C had started, S is not subscribed to C once the subscribe
\* has completed.
C17_CommandsInOrder ==
  [][\A p \in overtaken :
       (p \notin pending' /\ ~signatureDiffers(p.sid, p.payload)) =>
         /\ p.payload.channel \notin Range(cchannels'[p.sid])
         /\ p.sid \notin Range(Get(channels', p.payload.channel))]_vars

\* Session S, registered and subscribed to the presence channel c in this
\* state, leaves c in the step: by its unsubscribe or by its disconnect.
Leaves(S, c) ==
  /\ last'.op \in {"unsubscribe", "close"} /\ last'.sid = S
  /\ S \in clients
  /\ startsWith(c, "presence-")
  /\ c \in Range(cchannels[S]) /\ c \notin Range(cchannels'[S])
  /\ c \in DOMAIN joinedAs[S]

UserIds(sq, event, c) ==
  {sq[i].user_id : i \in {j \in 1..Len(sq) : sq[j].event = event /\ sq[j].channel = c}}

\* C18: when S leaves presence channel c, the entry deleted from the presence
\* store of c and the user id of the member_removed frames for c are those
\* of the user id with which S subscribed to c.
C18_LeaverIdentity ==
  [][\A S \in SocketIds : \A c \in Channels :
       Leaves(S, c) =>
         /\ Range(MapKeys(Get(presence', c)))
              = Range(MapKeys(Get(presence, c))) \ {joinedAs[S][c]}
         /\ UserIds(sent', "pusher_internal:member_removed", c)
              \subseteq {joinedAs[S][c]}]_vars

FanOutEvents ==
  {"test-event", "client-event",
   "pusher_internal:member_added", "pusher_internal:member_removed"}

\* C19: a broadcast, relay, member_added or member_removed frame for channel
\* c is sent only to registered sessions of the subscriber set of c; and a
\* session that was not in the subscriber set of c when the handler started
\* (it unsubscribed, or disconnected, and has not subscribed since) is sent
\* none.
C19_OnlyToSubscribers ==
  /\ [](\A i \in 1..Len(sent) :
          sent[i].event \in FanOutEvents =>
            /\ sent[i].to \in clients
            /\ sent[i].to \in subscribers(sent[i].channel))
  /\ [][\A i \in 1..Len(sent') :
          sent'[i].event \in FanOutEvents =>
            /\ sent'[i].to \in clients
            /\ sent'[i].to \in Range(Get(channels, sent'[i].channel))]_vars

\* A publish to both channels reached a subscriber of the public channel
\* while a registered session that has left it, and is in the presence
\* channel, was sent the presence channel's frame only.
C19_Witness ==
  /\ last.op = "broadcast" /\ last.excl = NoSocket
  /\ Range(last.chans) = {TestChannel, PresenceRoom}
  /\ FramesTo(sent, "test-event", TestChannel) # {}
  /\ \E S \in clients :
       /\ S \notin subscribers(TestChannel)
       /\ S \in subscribers(PresenceRoom)
       /\ S \notin FramesTo(sent, "test-event", TestChannel)
       /\ S \in FramesTo(sent, "test-event", PresenceRoom)

\* C20: a subscribe to presence channel c under a user id that the presence
\* store of c already holds sends no member_added frame.
C20_NoDuplicateMemberAdded ==
  [][( /\ Joined(last')
       /\ MapHas(Get(presence, last'.channel), last'.channel_data[1]) )
     => FramesTo(sent', "pusher_internal:member_added", last'.channel) = {}]_vars

====
